---- MODULE Spec2Model ----
(***************************************************************************)
(* State-machine model of log_monitor: the LogMonitor tail loop            *)
(* (src/src/log_monitor.cpp) and the KeywordMatcher                        *)
(* (src/src/keyword_matcher.cpp).                                          *)
(*                                                                         *)
(* Bytes are modelled as one-character strings and byte strings as         *)
(* sequences of them.  MAX_LINE_LENGTH is scaled down from 5000 so that    *)
(* records shorter than, equal to and several times longer than the cap    *)
(* all fit into the bounded input file.                                    *)
(***************************************************************************)
EXTENDS Integers, Sequences, FiniteSets, TLC

\* ------------------------------------------------------------------ bounds
MaxFile   == 5      \* the input file grows to at most this many bytes
MaxBuf    == 4      \* the largest config.bufferSize
MaxFairFile == 4    \* the input file's largest size in the runs with fairness or read errors
MaxText   == 3      \* the longest text handed to KeywordMatcher::matches
MaxArgs   == 2      \* at most this many keyword arguments or typed tokens
MaxErrors == 1      \* at most this many read errors are injected
MaxRotateFile == 2  \* the input file's largest size in the runs with truncation
                    \* or with getStatistics() calls

\* ------------------------------------------------------- program constants
MAX_LINE_LENGTH == 2   \* log_monitor.h:55 (5000 in the source, scaled)
SizeModulus == 256     \* size_t arithmetic wraps (2^64 in the build, scaled)

NL == "\n"
K  == "k"
X  == "x"
Bytes == {NL, K, X}

\* buffer sizes a Config is constructed with in this model: every byte its
\* own chunk, chunks of exactly the line cap, and chunks holding whole
\* over-long records.  Short reads at end-of-file produce every other
\* partitioning into chunks of at most MaxBuf bytes.
BufferSizes == {1, MAX_LINE_LENGTH, MaxBuf}

\* keyword lists a Config is constructed with in this model
KeywordSets == { <<>>, << <<K>> >>, << <<X, K>>, <<K, K>> >> }

Npos  == 0 - 1      \* std::string_view::npos
NoPos == 0 - 1      \* pos_type(-1), what tellg() returns on a failed stream

Min(a, b) == IF a < b THEN a ELSE b

VARIABLES
    file,          \* content of the input file (environment)
    fileExists,    \* whether the input path can be opened (environment)
    bufferSize,    \* config_.bufferSize
    keywords,      \* config_.keywords == matcher_->keywords_
    inOpen,        \* inStream_.is_open()
    streamPos,     \* read position of inStream_'s file buffer
    lastPosition,  \* lastPosition_
    partialLine,   \* partialLine_
    running,       \* running_
    stats,         \* stats_
    outFile,       \* content of the output file (bytes flushed to it)
    outBuf,        \* bytes written to outStream_ and not yet flushed
    outOpen,       \* outStream_.is_open()
    outOpenable,   \* whether the output path can be opened (environment)
    pc,            \* position of the thread executing start()
    dataRead,      \* local variable dataRead of start()
    errors,        \* number of read errors injected so far
    hist,          \* history: lines handed to processLine / matcher / output
    afterStop,     \* history: reads performed after stop() hit a running loop,
                   \*          and whether the single-call stopper made its call
    query,         \* last KeywordMatcher::matches call made from outside
    snapshot       \* the Statistics object a getStatistics() call is filling

vars == << file, fileExists, bufferSize, keywords, inOpen, streamPos,
           lastPosition, partialLine, running, stats, outFile, outBuf,
           outOpen, outOpenable, pc, dataRead, errors, hist, afterStop,
           query, snapshot >>

\* ---------------------------------------------------------- KeywordMatcher

\* std::string_view::find(keyword): first position (0-based) or npos
RECURSIVE FindFrom(_, _, _)
FindFrom(text, keyword, pos) ==
    IF pos + Len(keyword) > Len(text) THEN Npos
    ELSE IF SubSeq(text, pos + 1, pos + Len(keyword)) = keyword THEN pos
    ELSE FindFrom(text, keyword, pos + 1)

\* find as it would be if it looked for the keyword at the start only
Find_AtStartOnly(text, keyword) ==
    IF Len(keyword) <= Len(text) /\ SubSeq(text, 1, Len(keyword)) = keyword
    THEN 0
    ELSE Npos

Find(text, keyword) == FindFrom(text, keyword, 0)

\* matches as it would be if it answered true once the keywords run out
RECURSIVE MatchesFrom_DefaultTrue(_, _, _)
MatchesFrom_DefaultTrue(kws, text, i) ==
    IF i > Len(kws) THEN TRUE
    ELSE IF Find(text, kws[i]) # Npos THEN TRUE
    ELSE MatchesFrom_DefaultTrue(kws, text, i + 1)

\* KeywordMatcher::matches: loop over keywords_, early exit on first hit
RECURSIVE MatchesFrom(_, _, _)
MatchesFrom(kws, text, i) ==
    IF i > Len(kws) THEN FALSE
    ELSE IF Find(text, kws[i]) # Npos THEN TRUE
    ELSE MatchesFrom(kws, text, i + 1)

Matches(kws, text) == MatchesFrom(kws, text, 1)

\* ------------------------------------------------------------- LogMonitor

\* The part of the monitor that processLine/processBuffer update, as a record
Cur == [ partialLine |-> partialLine, stats |-> stats, outFile |-> outFile,
         outBuf |-> outBuf, hist |-> hist, outOpen |-> outOpen ]

\* outStream_.write(data, length): the bytes go to the stream's buffer
\* (nowhere if the stream is not open)
Write(s, bytes) == IF s.outOpen THEN [s EXCEPT !.outBuf = @ \o bytes] ELSE s

\* outStream_.put(c)
Put(s, c) == IF s.outOpen THEN [s EXCEPT !.outBuf = Append(@, c)] ELSE s

\* outStream_.flush() as it would be if the stream flushed only when its
\* buffer fills or it closes
Flush_Deferred(s) == s

\* outStream_.flush(): the buffered bytes are appended to the output file
Flush(s) == [s EXCEPT !.outFile = @ \o s.outBuf, !.outBuf = <<>>]

\* processLine as it would be if the matcher were given the untruncated line
ProcessLine_MatchRaw(s, line, from) ==
    LET s0 == [s EXCEPT !.hist.handed = Append(@, [line |-> line, from |-> from])]
    IN  IF line = <<>> THEN s0
        ELSE
          LET long == Len(line) > MAX_LINE_LENGTH
              processedLine == IF long THEN SubSeq(line, 1, MAX_LINE_LENGTH)
                                       ELSE line
              s1 == [s0 EXCEPT
                       !.stats.linesProcessed = @ + 1,
                       !.stats.longLinesDiscarded = IF long THEN @ + 1 ELSE @,
                       !.hist.filtered = Append(@, processedLine)]
          IN  IF Matches(keywords, line)
              THEN LET s2 == [s1 EXCEPT !.stats.linesMatched = @ + 1,
                                        !.hist.written = Append(@, from)]
                   IN  Flush(Put(Write(s2, processedLine), NL))
              ELSE s1

\* processLine as it would be without the test for an empty line
ProcessLine_KeepsEmpty(s, line, from) ==
    LET s0 == [s EXCEPT !.hist.handed = Append(@, [line |-> line, from |-> from])]
        long == Len(line) > MAX_LINE_LENGTH
        processedLine == IF long THEN SubSeq(line, 1, MAX_LINE_LENGTH)
                                 ELSE line
        s1 == [s0 EXCEPT
                 !.stats.linesProcessed = @ + 1,
                 !.stats.longLinesDiscarded = IF long THEN @ + 1 ELSE @,
                 !.hist.filtered = Append(@, processedLine)]
    IN  IF Matches(keywords, processedLine)
        THEN LET s2 == [s1 EXCEPT !.stats.linesMatched = @ + 1,
                                  !.hist.written = Append(@, from)]
             IN  Flush(Put(Write(s2, processedLine), NL))
        ELSE s1

\* processLine as it would be if linesProcessed were counted on the
\* no-match path only
ProcessLine_CountsUnmatchedOnly(s, line, from) ==
    LET s0 == [s EXCEPT !.hist.handed = Append(@, [line |-> line, from |-> from])]
    IN  IF line = <<>> THEN s0
        ELSE
          LET long == Len(line) > MAX_LINE_LENGTH
              processedLine == IF long THEN SubSeq(line, 1, MAX_LINE_LENGTH)
                                       ELSE line
              s1 == [s0 EXCEPT
                       !.stats.longLinesDiscarded = IF long THEN @ + 1 ELSE @,
                       !.hist.filtered = Append(@, processedLine)]
          IN  IF Matches(keywords, processedLine)
              THEN LET s2 == [s1 EXCEPT !.stats.linesMatched = @ + 1,
                                        !.hist.written = Append(@, from)]
                   IN  Flush(Put(Write(s2, processedLine), NL))
              ELSE [s1 EXCEPT !.stats.linesProcessed = @ + 1]

\* LogMonitor::processLine.  `from` is history only: the 1-based offset in
\* the input file of the first byte of `line`.
ProcessLine(s, line, from) ==
    LET s0 == [s EXCEPT !.hist.handed = Append(@, [line |-> line, from |-> from])]
    IN  IF line = <<>> THEN s0
        ELSE
          LET long == Len(line) > MAX_LINE_LENGTH
              processedLine == IF long THEN SubSeq(line, 1, MAX_LINE_LENGTH)
                                       ELSE line
              s1 == [s0 EXCEPT
                       !.stats.linesProcessed = @ + 1,
                       !.stats.longLinesDiscarded = IF long THEN @ + 1 ELSE @,
                       !.hist.filtered = Append(@, processedLine)]
          IN  IF Matches(keywords, processedLine)
              THEN LET s2 == [s1 EXCEPT !.stats.linesMatched = @ + 1,
                                        !.hist.written = Append(@, from)]
                   IN  Flush(Put(Write(s2, processedLine), NL))
              ELSE s1

\* the for loop of processBuffer as it would be if a stitched line were
\* processed after the rest of the buffer instead of when its terminator
\* is found
RECURSIVE ScanBuffer_StitchLast(_, _, _, _, _)
ScanBuffer_StitchLast(s, buffer, i, start, base) ==
    IF i > Len(buffer) THEN [s |-> s, start |-> start]
    ELSE IF buffer[i] = NL
    THEN LET segment == SubSeq(buffer, start, i - 1)
         IN  IF s.partialLine # <<>>
             THEN LET rest == ScanBuffer_StitchLast(
                                 [s EXCEPT !.partialLine = <<>>],
                                 buffer, i + 1, i + 1, base)
                  IN  [ s |-> ProcessLine(rest.s, s.partialLine \o segment,
                                          s.hist.partialFrom),
                        start |-> rest.start ]
             ELSE ScanBuffer_StitchLast(ProcessLine(s, segment, base + start),
                                        buffer, i + 1, i + 1, base)
    ELSE ScanBuffer_StitchLast(s, buffer, i + 1, start, base)

\* The for loop of processBuffer (lines 137-154).  i and start are 1-based;
\* base is the file offset of the byte before buffer[1] (history only).
RECURSIVE ScanBuffer(_, _, _, _, _)
ScanBuffer(s, buffer, i, start, base) ==
    IF i > Len(buffer) THEN [s |-> s, start |-> start]
    ELSE IF buffer[i] = NL
    THEN LET segment == SubSeq(buffer, start, i - 1)
             s1 == IF s.partialLine # <<>>
                   THEN [ ProcessLine(s, s.partialLine \o segment,
                                      s.hist.partialFrom)
                            EXCEPT !.partialLine = <<>> ]
                   ELSE ProcessLine(s, segment, base + start)
         IN  ScanBuffer(s1, buffer, i + 1, i + 1, base)
    ELSE ScanBuffer(s, buffer, i + 1, start, base)

\* processBuffer as it would be if the unterminated tail were cut one byte
\* early (threshold MAX_LINE_LENGTH - 1)
ProcessBuffer_CutEarly(s, buffer, base) ==
    LET s0   == [s EXCEPT !.stats.bytesRead = @ + Len(buffer)]
        scan == ScanBuffer(s0, buffer, 1, 1, base)
        s1   == scan.s
        start == scan.start
    IN  IF start <= Len(buffer)
        THEN LET remainingLen == Len(buffer) - start + 1
                 from == IF s1.partialLine = <<>> THEN base + start
                                                  ELSE s1.hist.partialFrom
             IN  IF Len(s1.partialLine) + remainingLen >= MAX_LINE_LENGTH - 1
                 THEN LET count == Min(MAX_LINE_LENGTH - Len(s1.partialLine),
                                       remainingLen)
                          line  == s1.partialLine
                                     \o SubSeq(buffer, start, start + count - 1)
                          s2    == ProcessLine(s1, line, from)
                      IN  [s2 EXCEPT !.partialLine = <<>>,
                                     !.stats.longLinesDiscarded = @ + 1]
                 ELSE [s1 EXCEPT
                         !.partialLine = @ \o SubSeq(buffer, start, Len(buffer)),
                         !.hist.partialFrom = from]
        ELSE s1

\* processBuffer as it would be without the MAX_LINE_LENGTH check on the
\* unterminated tail
ProcessBuffer_NoCap(s, buffer, base) ==
    LET s0   == [s EXCEPT !.stats.bytesRead = @ + Len(buffer)]
        scan == ScanBuffer(s0, buffer, 1, 1, base)
        s1   == scan.s
        start == scan.start
    IN  IF start <= Len(buffer)
        THEN [s1 EXCEPT
                !.partialLine = @ \o SubSeq(buffer, start, Len(buffer)),
                !.hist.partialFrom = IF s1.partialLine = <<>>
                                     THEN base + start ELSE @]
        ELSE s1

\* line 164 as it would be if the size_t difference were taken the other
\* way round
AppendCount_Reversed(partialLength) ==
    (partialLength - MAX_LINE_LENGTH) % SizeModulus

\* line 164: MAX_LINE_LENGTH - partialLine_.length(), a difference of two
\* size_t values, the number of bytes append() copies from buffer + start
AppendCount(partialLength) ==
    (MAX_LINE_LENGTH - partialLength) % SizeModulus

\* LogMonitor::processBuffer
ProcessBuffer(s, buffer, base) ==
    LET s0   == [s EXCEPT !.stats.bytesRead = @ + Len(buffer)]
        scan == ScanBuffer(s0, buffer, 1, 1, base)
        s1   == scan.s
        start == scan.start
    IN  IF start <= Len(buffer)
        THEN LET remainingLen == Len(buffer) - start + 1
                 from == IF s1.partialLine = <<>> THEN base + start
                                                  ELSE s1.hist.partialFrom
             IN  IF Len(s1.partialLine) + remainingLen >= MAX_LINE_LENGTH
                 THEN LET count == AppendCount(Len(s1.partialLine))
                          line  == s1.partialLine
                                     \o SubSeq(buffer, start, start + count - 1)
                          s2    == ProcessLine(s1, line, from)
                      IN  [s2 EXCEPT !.partialLine = <<>>,
                                     !.stats.longLinesDiscarded = @ + 1]
                 ELSE [s1 EXCEPT
                         !.partialLine = @ \o SubSeq(buffer, start, Len(buffer)),
                         !.hist.partialFrom = from]
        ELSE s1

\* ------------------------------------------------------------------- Init

\* contents the output file may have before the monitor is constructed
PreexistingOutputs == { <<>>, <<X, NL>> }

\* the fields of LogMonitor::Statistics
StatFields == {"linesProcessed", "linesMatched", "bytesRead",
               "longLinesDiscarded"}

ZeroStats == [linesProcessed |-> 0, linesMatched |-> 0, bytesRead |-> 0,
              longLinesDiscarded |-> 0]

\* no getStatistics() call has been made
NoSnapshot == [phase |-> "none", copied |-> {}, value |-> ZeroStats]

NoQuery == [text |-> <<>>, result |-> FALSE, made |-> FALSE]

\* The state in which LogMonitor::LogMonitor(config) is about to run: the
\* Config is chosen, the environment is as it is, no member is set yet.
InitOver(kwSets, bufSizes, outputs) ==
    /\ file = <<>>
    /\ fileExists = FALSE
    /\ bufferSize \in bufSizes
    /\ keywords \in kwSets
    /\ inOpen = FALSE
    /\ streamPos = 0
    /\ lastPosition = 0
    /\ partialLine = <<>>
    /\ running = FALSE
    /\ stats = ZeroStats
    /\ outFile \in outputs
    /\ outBuf = <<>>
    /\ outOpen = FALSE
    /\ outOpenable \in BOOLEAN
    /\ pc = "new"
    /\ dataRead = FALSE
    /\ errors = 0
    /\ hist = [handed |-> <<>>, filtered |-> <<>>, written |-> <<>>,
               partialFrom |-> 0, preexisting |-> outFile]
    /\ afterStop = [called |-> FALSE, reads |-> 0, once |-> FALSE]
    /\ query = NoQuery
    /\ snapshot = NoSnapshot

\* the output file does not exist before construction (as the tests arrange)
Init == InitOver(KeywordSets, BufferSizes, { <<>> })

\* ---------------------------------------------------- keywords of a Matcher

KU    == "K"       \* an upper-case byte, distinct from K
COMMA == ","

RECURSIVE SeqsUpTo(_, _)
SeqsUpTo(S, n) ==
    IF n = 0 THEN { <<>> }
    ELSE LET shorter == SeqsUpTo(S, n - 1)
         IN  shorter \cup { Append(q, x) : q \in shorter, x \in S }

\* the texts a Matcher is asked about
Texts == SeqsUpTo({K, X, KU}, MaxText)

\* argv[3..]: the shell passes any strings, the empty string among them
ArgWords == { <<>>, <<K>>, <<X, K>> }

\* main, argc > 3: every argument becomes a keyword as it is
KeywordsFromArgs(args) == args

\* what operator>> extracts from the typed line: non-empty, no white space
TokenWords == { <<K>>, <<COMMA>>, <<K, COMMA>>, <<COMMA, COMMA>> }

Key1 == <<"k", "e", "y", "1">>
Key2 == <<"k", "e", "y", "2">>

\* the while loop of getKeywordsFromUser: one trailing comma is removed and
\* what is then empty is skipped
RECURSIVE StripTokens(_)
StripTokens(tokens) ==
    IF tokens = <<>> THEN <<>>
    ELSE LET t == Head(tokens)
             keyword == IF t # <<>> /\ t[Len(t)] = COMMA
                        THEN SubSeq(t, 1, Len(t) - 1)
                        ELSE t
         IN  (IF keyword # <<>> THEN << keyword >> ELSE <<>>)
             \o StripTokens(Tail(tokens))

\* getKeywordsFromUser: the stripped tokens, or the defaults if none is left
GetKeywordsFromUser(tokens) ==
    IF StripTokens(tokens) = <<>> THEN << Key1, Key2 >>
    ELSE StripTokens(tokens)

\* the keyword lists a KeywordMatcher is constructed with: a Config as the
\* tests build it, the command line, or the typed line
MatcherKeywordSets ==
    KeywordSets
    \cup { KeywordsFromArgs(args) : args \in SeqsUpTo(ArgWords, MaxArgs) \ { <<>> } }
    \cup { GetKeywordsFromUser(tokens) : tokens \in SeqsUpTo(TokenWords, MaxArgs) }

\* a KeywordMatcher over one of these lists, not yet asked anything
InitMatch == InitOver(MatcherKeywordSets, { MaxBuf }, { <<>> })

\* one call matcher.matches(text); the answer is recorded in query
MatchQuery(text) ==
    /\ query' = [text |-> text, result |-> Matches(keywords, text), made |-> TRUE]
    /\ UNCHANGED << file, fileExists, bufferSize, keywords, inOpen, streamPos,
                    lastPosition, partialLine, running, stats, outFile, outBuf,
                    outOpen, outOpenable, pc, dataRead, errors, hist, afterStop,
                    snapshot >>

NextMatch == \E text \in Texts : MatchQuery(text)

SpecMatch == InitMatch /\ [][NextMatch]_vars

\* ------------------------------------------------------------ construction

\* the constructor as it would be if the output were opened without
\* std::ios::app: what the file held is gone
Construct_Truncates ==
    /\ pc = "new"
    /\ lastPosition' = 0
    /\ running' = FALSE
    /\ partialLine' = <<>>
    /\ stats' = ZeroStats
    /\ inOpen' = FALSE
    /\ IF outOpenable
       THEN /\ outOpen' = TRUE
            /\ outFile' = <<>>
            /\ pc' = "idle"
       ELSE /\ outOpen' = FALSE
            /\ outFile' = outFile
            /\ pc' = "failed"
    /\ UNCHANGED << file, fileExists, bufferSize, keywords, streamPos,
                    outBuf, outOpenable, dataRead, errors, hist, afterStop,
                    query, snapshot >>

\* the constructor as it would be without the is_open() test: a monitor
\* exists whether or not the output could be opened
Construct_IgnoresOpenFailure ==
    /\ pc = "new"
    /\ lastPosition' = 0
    /\ running' = FALSE
    /\ partialLine' = <<>>
    /\ stats' = ZeroStats
    /\ inOpen' = FALSE
    /\ outOpen' = outOpenable
    /\ pc' = "idle"
    /\ UNCHANGED << file, fileExists, bufferSize, keywords, streamPos, outFile,
                    outBuf, outOpenable, dataRead, errors, hist, afterStop,
                    query, snapshot >>

\* LogMonitor::LogMonitor: member initialisers, then the output is opened
\* in append mode; a failed open throws and no LogMonitor exists.
Construct ==
    /\ pc = "new"
    /\ lastPosition' = 0
    /\ running' = FALSE
    /\ partialLine' = <<>>
    /\ stats' = ZeroStats
    /\ inOpen' = FALSE
    /\ IF outOpenable
       THEN /\ outOpen' = TRUE
            /\ pc' = "idle"
       ELSE /\ outOpen' = FALSE
            /\ pc' = "failed"
    /\ UNCHANGED << file, fileExists, bufferSize, keywords, streamPos, outFile,
                    outBuf, outOpenable, dataRead, errors, hist, afterStop,
                    query, snapshot >>

\* ------------------------------------------------------------ environment

\* the input file is created by its writer
CreateFile ==
    /\ ~fileExists
    /\ fileExists' = TRUE
    /\ UNCHANGED << file, bufferSize, keywords, inOpen, streamPos,
                    lastPosition, partialLine, running, stats, outFile, pc,
                    dataRead, errors, hist, afterStop,
                    outBuf, outOpen, outOpenable, query, snapshot >>

\* the writer appends one byte to the input file
AppendByte(b) ==
    /\ fileExists
    /\ Len(file) < MaxFile
    /\ file' = Append(file, b)
    /\ UNCHANGED << fileExists, bufferSize, keywords, inOpen, streamPos,
                    lastPosition, partialLine, running, stats, outFile, pc,
                    dataRead, errors, hist, afterStop,
                    outBuf, outOpen, outOpenable, query, snapshot >>

\* The writer truncates the input file to no bytes (a log rotated in place)
\* while a reader may have it open; the reader's offset is not moved.
Truncate ==
    /\ fileExists
    /\ Len(file) > 0
    /\ file' = <<>>
    /\ UNCHANGED << fileExists, bufferSize, keywords, inOpen, streamPos,
                    lastPosition, partialLine, running, stats, outFile, pc,
                    dataRead, errors, hist, afterStop,
                    outBuf, outOpen, outOpenable, query, snapshot >>

\* ---------------------------------------------------- LogMonitor::start()

\* line 202: running_ = true
StartEnter ==
    /\ pc = "idle"
    /\ running' = TRUE
    /\ pc' = "loop"
    /\ UNCHANGED << file, fileExists, bufferSize, keywords, inOpen, streamPos,
                    lastPosition, partialLine, stats, outFile, dataRead,
                    errors, hist, afterStop,
                    outBuf, outOpen, outOpenable, query, snapshot >>

\* line 215: while (running_)
LoopCheck ==
    /\ pc = "loop"
    /\ pc' = IF running THEN "open" ELSE "done"
    /\ UNCHANGED << file, fileExists, bufferSize, keywords, inOpen, streamPos,
                    lastPosition, partialLine, running, stats, outFile,
                    dataRead, errors, hist, afterStop,
                    outBuf, outOpen, outOpenable, query, snapshot >>

\* the open path as it would be if a failed open ended start() with an
\* error instead of being retried
OpenInput_GivesUpOnFailure ==
    /\ pc = "open"
    /\ IF inOpen
       THEN /\ pc' = "read"
            /\ dataRead' = FALSE
            /\ UNCHANGED << inOpen, streamPos >>
       ELSE IF fileExists /\ lastPosition # NoPos
       THEN /\ inOpen' = TRUE
            /\ streamPos' = lastPosition
            /\ pc' = "read"
            /\ dataRead' = FALSE
       ELSE IF fileExists
       THEN /\ inOpen' = TRUE
            /\ pc' = "sleep"
            /\ dataRead' = FALSE
            /\ UNCHANGED streamPos
       ELSE /\ pc' = "done"
            /\ UNCHANGED << inOpen, streamPos, dataRead >>
    /\ UNCHANGED << file, fileExists, bufferSize, keywords, lastPosition,
                    partialLine, running, stats, outFile, errors, hist,
                    afterStop,
                    outBuf, outOpen, outOpenable, query, snapshot >>

\* the open path as it would be if the retry after a failed open came
\* without the sleep
OpenInput_SpinsOnFailure ==
    /\ pc = "open"
    /\ IF inOpen
       THEN /\ pc' = "read"
            /\ dataRead' = FALSE
            /\ UNCHANGED << inOpen, streamPos >>
       ELSE IF fileExists /\ lastPosition # NoPos
       THEN /\ inOpen' = TRUE
            /\ streamPos' = lastPosition
            /\ pc' = "read"
            /\ dataRead' = FALSE
       ELSE IF fileExists
       THEN /\ inOpen' = TRUE
            /\ pc' = "sleep"
            /\ dataRead' = FALSE
            /\ UNCHANGED streamPos
       ELSE /\ pc' = "loop"
            /\ UNCHANGED << inOpen, streamPos, dataRead >>
    /\ UNCHANGED << file, fileExists, bufferSize, keywords, lastPosition,
                    partialLine, running, stats, outFile, errors, hist,
                    afterStop,
                    outBuf, outOpen, outOpenable, query, snapshot >>

\* the open path as it would be if it started at the tail of the file
OpenInput_SeeksToEnd ==
    /\ pc = "open"
    /\ IF inOpen
       THEN /\ pc' = "read"
            /\ dataRead' = FALSE
            /\ UNCHANGED << inOpen, streamPos >>
       ELSE IF fileExists
       THEN /\ inOpen' = TRUE
            /\ streamPos' = Len(file)
            /\ pc' = "read"
            /\ dataRead' = FALSE
       ELSE /\ pc' = "sleep"
            /\ UNCHANGED << inOpen, streamPos, dataRead >>
    /\ UNCHANGED << file, fileExists, bufferSize, keywords, lastPosition,
                    partialLine, running, stats, outFile, errors, hist,
                    afterStop,
                    outBuf, outOpen, outOpenable, query, snapshot >>

\* lines 217-230: open the input if it is not open, then dataRead = false
OpenInput ==
    /\ pc = "open"
    /\ IF inOpen
       THEN /\ pc' = "read"
            /\ dataRead' = FALSE
            /\ UNCHANGED << inOpen, streamPos >>
       ELSE IF fileExists /\ lastPosition # NoPos
       THEN /\ inOpen' = TRUE
            /\ streamPos' = lastPosition          \* seekg(lastPosition_)
            /\ pc' = "read"
            /\ dataRead' = FALSE
       ELSE IF fileExists
       THEN /\ inOpen' = TRUE                     \* seekg(-1) fails the stream:
            /\ pc' = "sleep"                      \* good() is false, no read
            /\ dataRead' = FALSE
            /\ UNCHANGED streamPos
       ELSE /\ pc' = "sleep"                      \* sleep_for; continue
            /\ UNCHANGED << inOpen, streamPos, dataRead >>
    /\ UNCHANGED << file, fileExists, bufferSize, keywords, lastPosition,
                    partialLine, running, stats, outFile, errors, hist,
                    afterStop,
                    outBuf, outOpen, outOpenable, query, snapshot >>

\* the inner loop as it would be if a read that finds nothing at
\* end-of-file closed the input (to re-open it on the next iteration)
ReadChunk_ClosesAtEof ==
    /\ pc = "read"
    /\ LET avail  == IF inOpen /\ streamPos < Len(file)
                     THEN Len(file) - streamPos ELSE 0
           n      == Min(bufferSize, avail)
           buffer == SubSeq(file, streamPos + 1, streamPos + n)
           eof    == n < bufferSize
           res    == IF n > 0 THEN ProcessBuffer(Cur, buffer, streamPos)
                              ELSE Cur
       IN  /\ partialLine' = res.partialLine
           /\ stats' = res.stats
           /\ outFile' = res.outFile
           /\ outBuf' = res.outBuf
           /\ hist' = res.hist
           /\ streamPos' = streamPos + n
           /\ dataRead' = (dataRead \/ n > 0)
           /\ lastPosition' = IF n > 0
                              THEN (IF eof THEN NoPos ELSE streamPos + n)
                              ELSE lastPosition
           /\ inOpen' = IF n = 0 THEN FALSE ELSE inOpen
           /\ pc' = IF ~eof THEN "read"
                    ELSE IF dataRead' THEN "loop" ELSE "sleep"
           /\ afterStop' = IF afterStop.called /\ n > 0
                           THEN [afterStop EXCEPT !.reads = Min(@ + 1, 2)]
                           ELSE afterStop
    /\ UNCHANGED << file, fileExists, bufferSize, keywords, running,
                    errors, outOpen, outOpenable, query, snapshot >>

\* the inner loop as it would be without inStream_.clear() at end-of-file:
\* once a read has come up short the stream stays failed and delivers nothing
ReadChunk_EofSticky ==
    /\ pc = "read"
    /\ LET avail  == IF inOpen /\ streamPos < Len(file)
                     THEN Len(file) - streamPos ELSE 0
           n      == IF lastPosition = NoPos THEN 0 ELSE Min(bufferSize, avail)
           buffer == SubSeq(file, streamPos + 1, streamPos + n)
           eof    == n < bufferSize
           res    == IF n > 0 THEN ProcessBuffer(Cur, buffer, streamPos)
                              ELSE Cur
       IN  /\ partialLine' = res.partialLine
           /\ stats' = res.stats
           /\ outFile' = res.outFile
           /\ outBuf' = res.outBuf
           /\ hist' = res.hist
           /\ streamPos' = streamPos + n
           /\ dataRead' = (dataRead \/ n > 0)
           /\ lastPosition' = IF n > 0
                              THEN (IF eof THEN NoPos ELSE streamPos + n)
                              ELSE lastPosition
           /\ pc' = IF ~eof THEN "read"
                    ELSE IF dataRead' THEN "loop" ELSE "sleep"
           /\ afterStop' = IF afterStop.called /\ n > 0
                           THEN [afterStop EXCEPT !.reads = Min(@ + 1, 2)]
                           ELSE afterStop
    /\ UNCHANGED << file, fileExists, bufferSize, keywords, inOpen, running,
                    errors, outOpen, outOpenable, query, snapshot >>

\* the inner loop as it would be if a cleared running_ made it drop the
\* buffer it has just read
ReadChunk_DropWhenStopped ==
    /\ pc = "read"
    /\ LET avail  == IF inOpen /\ streamPos < Len(file)
                     THEN Len(file) - streamPos ELSE 0
           n      == Min(bufferSize, avail)
           buffer == SubSeq(file, streamPos + 1, streamPos + n)
           eof    == n < bufferSize
           res    == IF n > 0 /\ running
                     THEN ProcessBuffer(Cur, buffer, streamPos)
                     ELSE Cur
       IN  /\ partialLine' = res.partialLine
           /\ stats' = res.stats
           /\ outFile' = res.outFile
           /\ outBuf' = res.outBuf
           /\ hist' = res.hist
           /\ streamPos' = streamPos + n
           /\ dataRead' = (dataRead \/ n > 0)
           /\ lastPosition' = IF n > 0
                              THEN (IF eof THEN NoPos ELSE streamPos + n)
                              ELSE lastPosition
           /\ pc' = IF ~eof THEN "read"
                    ELSE IF dataRead' THEN "loop" ELSE "sleep"
           /\ afterStop' = IF afterStop.called /\ n > 0
                           THEN [afterStop EXCEPT !.reads = Min(@ + 1, 2)]
                           ELSE afterStop
    /\ UNCHANGED << file, fileExists, bufferSize, keywords, inOpen, running,
                    errors, outOpen, outOpenable, query, snapshot >>

\* One pass of the inner while (inStream_.good()) loop without an I/O error:
\* read(), gcount(), processBuffer(), tellg(), the eof() test.
ReadChunk ==
    /\ pc = "read"
    /\ LET avail  == IF inOpen /\ streamPos < Len(file)
                     THEN Len(file) - streamPos ELSE 0
           n      == Min(bufferSize, avail)
           buffer == SubSeq(file, streamPos + 1, streamPos + n)
           eof    == n < bufferSize
           res    == IF n > 0 THEN ProcessBuffer(Cur, buffer, streamPos)
                              ELSE Cur
       IN  /\ partialLine' = res.partialLine
           /\ stats' = res.stats
           /\ outFile' = res.outFile
           /\ outBuf' = res.outBuf
           /\ hist' = res.hist
           /\ streamPos' = streamPos + n
           /\ dataRead' = (dataRead \/ n > 0)
           /\ lastPosition' = IF n > 0
                              THEN (IF eof THEN NoPos ELSE streamPos + n)
                              ELSE lastPosition
           /\ pc' = IF ~eof THEN "read"
                    ELSE IF dataRead' THEN "loop" ELSE "sleep"
           /\ afterStop' = IF afterStop.called /\ n > 0
                           THEN [afterStop EXCEPT !.reads = Min(@ + 1, 2)]
                           ELSE afterStop
    /\ UNCHANGED << file, fileExists, bufferSize, keywords, inOpen, running,
                    errors, outOpen, outOpenable, query, snapshot >>

\* error recovery as it would be without partialLine_.clear()
ReadError_KeepsCarry ==
    /\ pc = "read"
    /\ errors < MaxErrors
    /\ errors' = errors + 1
    /\ inOpen' = FALSE
    /\ lastPosition' = 0
    /\ pc' = IF dataRead THEN "loop" ELSE "sleep"
    /\ UNCHANGED << file, fileExists, bufferSize, keywords, streamPos, running,
                    stats, outFile, dataRead, hist, afterStop, partialLine,
                    outBuf, outOpen, outOpenable, query, snapshot >>

\* error recovery as it would be if it also started the statistics afresh
ReadError_ResetsStats ==
    /\ pc = "read"
    /\ errors < MaxErrors
    /\ errors' = errors + 1
    /\ inOpen' = FALSE
    /\ lastPosition' = 0
    /\ partialLine' = <<>>
    /\ stats' = ZeroStats
    /\ pc' = IF dataRead THEN "loop" ELSE "sleep"
    /\ UNCHANGED << file, fileExists, bufferSize, keywords, streamPos, running,
                    outFile, dataRead, hist, afterStop,
                    outBuf, outOpen, outOpenable, query, snapshot >>

\* One pass of the inner loop in which read() fails with badbit (no bytes):
\* lines 246-252.
ReadError ==
    /\ pc = "read"
    /\ errors < MaxErrors
    /\ errors' = errors + 1
    /\ inOpen' = FALSE
    /\ lastPosition' = 0
    /\ partialLine' = <<>>
    /\ pc' = IF dataRead THEN "loop" ELSE "sleep"
    /\ UNCHANGED << file, fileExists, bufferSize, keywords, streamPos, running,
                    stats, outFile, dataRead, hist, afterStop,
                    outBuf, outOpen, outOpenable, query, snapshot >>

\* lines 223-225 and 256-259: sleep_for(pollIntervalMs), back to the loop test
Sleep ==
    /\ pc = "sleep"
    /\ pc' = "loop"
    /\ UNCHANGED << file, fileExists, bufferSize, keywords, inOpen, streamPos,
                    lastPosition, partialLine, running, stats, outFile,
                    dataRead, errors, hist, afterStop,
                    outBuf, outOpen, outOpenable, query, snapshot >>

\* ----------------------------------------------------- LogMonitor::stop()

\* stop() as it would be if it also released the input, as the destructor does
Stop_ClosesInput ==
    /\ pc \notin {"new", "failed"}
    /\ running' = FALSE
    /\ inOpen' = FALSE
    /\ afterStop' = IF pc \in {"loop", "open", "read", "sleep"}
                    THEN [afterStop EXCEPT !.called = TRUE]
                    ELSE afterStop
    /\ UNCHANGED << file, fileExists, bufferSize, keywords, streamPos,
                    lastPosition, partialLine, stats, outFile, outBuf, outOpen,
                    outOpenable, pc, dataRead, errors, hist, query,
                    snapshot >>

\* Callable once the monitor exists (main.cpp:30 tests g_monitor).
Stop ==
    /\ pc \notin {"new", "failed"}
    /\ running' = FALSE
    /\ afterStop' = IF pc \in {"loop", "open", "read", "sleep"}
                    THEN [afterStop EXCEPT !.called = TRUE]
                    ELSE afterStop
    /\ UNCHANGED << file, fileExists, bufferSize, keywords, inOpen, streamPos,
                    lastPosition, partialLine, stats, outFile, outBuf, outOpen,
                    outOpenable, pc, dataRead, errors, hist, query,
                    snapshot >>

\* stop() from a thread or signal handler that calls it exactly once; the
\* call is remembered in afterStop.once
StopOnce ==
    /\ pc \notin {"new", "failed"}
    /\ ~afterStop.once
    /\ running' = FALSE
    /\ afterStop' = [afterStop EXCEPT
                        !.once = TRUE,
                        !.called = @ \/ pc \in {"loop", "open", "read", "sleep"}]
    /\ UNCHANGED << file, fileExists, bufferSize, keywords, inOpen, streamPos,
                    lastPosition, partialLine, stats, outFile, outBuf, outOpen,
                    outOpenable, pc, dataRead, errors, hist, query,
                    snapshot >>

\* ------------------------------------------------ LogMonitor::getStatistics()

\* `return stats_;` run by a thread other than the one inside start(): the
\* copy of the four plain uint64_t members is not synchronised with the
\* loop's increments (a data race), so the members are copied one by one,
\* in any order, and the loop may run between two of them.  The step that
\* copies the last member returns the Statistics object; a step taken after
\* a call has returned begins the next call.
GetStatistics(f) ==
    /\ pc \notin {"new", "failed"}
    /\ LET cur    == IF snapshot.phase = "copying" THEN snapshot
                                                   ELSE NoSnapshot
           copied == cur.copied \cup {f}
       IN  /\ f \notin cur.copied
           /\ snapshot' = [phase  |-> IF copied = StatFields
                                      THEN "returned" ELSE "copying",
                           copied |-> copied,
                           value  |-> [cur.value EXCEPT ![f] = stats[f]]]
    /\ UNCHANGED << file, fileExists, bufferSize, keywords, inOpen, streamPos,
                    lastPosition, partialLine, running, stats, outFile, outBuf,
                    outOpen, outOpenable, pc, dataRead, errors, hist,
                    afterStop, query >>

\* ----------------------------------------------- LogMonitor::~LogMonitor()

\* LogMonitor::~LogMonitor run by another thread while start() is running
\* or after it returned: stop(), then both streams are closed.  Nothing
\* waits for the thread inside start().
Destroy ==
    /\ pc \in {"loop", "open", "read", "sleep", "done"}
    /\ outOpen
    /\ running' = FALSE
    /\ inOpen' = FALSE
    /\ outOpen' = FALSE
    /\ afterStop' = IF pc # "done"
                    THEN [afterStop EXCEPT !.called = TRUE]
                    ELSE afterStop
    /\ UNCHANGED << file, fileExists, bufferSize, keywords, streamPos,
                    lastPosition, partialLine, stats, outFile, outBuf,
                    outOpenable, pc, dataRead, errors, hist, query,
                    snapshot >>

\* The tailer and its environment while every read() succeeds or hits EOF
Next ==
    \/ Construct
    \/ CreateFile
    \/ \E b \in Bytes : AppendByte(b)
    \/ StartEnter
    \/ LoopCheck
    \/ OpenInput
    \/ ReadChunk
    \/ Sleep
    \/ Stop

Spec == Init /\ [][Next]_vars

\* the steps of the thread that executes start()
LoopStep ==
    \/ LoopCheck
    \/ OpenInput
    \/ ReadChunk
    \/ Sleep

\* The thread inside start() keeps being scheduled: none of its steps blocks
\* (read() returns at end-of-file, sleep_for returns after pollIntervalMs).
InitFair == InitOver({ << <<K>> >> }, { MAX_LINE_LENGTH }, { <<>> })

\* the same steps as Next, over a shorter input file
NextFair ==
    \/ Construct
    \/ CreateFile
    \/ \E b \in Bytes : Len(file) < MaxFairFile /\ AppendByte(b)
    \/ StartEnter
    \/ LoopStep
    \/ Stop

FairSpec == InitFair /\ [][NextFair]_vars /\ WF_vars(LoopStep)

\* An unattended run: start() is left running and nobody calls stop()
NextRun ==
    \/ Construct
    \/ CreateFile
    \/ \E b \in Bytes : AppendByte(b)
    \/ StartEnter
    \/ LoopStep

SpecRun == Init /\ [][NextRun]_vars

\* An unattended run (nobody calls stop()) over a short input file, in
\* which reads may fail, at most MaxErrors times
NextErr ==
    \/ Construct
    \/ CreateFile
    \/ \E b \in Bytes : Len(file) < MaxFairFile /\ AppendByte(b)
    \/ StartEnter
    \/ LoopCheck
    \/ OpenInput
    \/ ReadChunk
    \/ ReadError
    \/ Sleep

\* with read errors: one keyword list, the largest buffer, and an output
\* file that may hold earlier content
InitErr == InitOver({ << <<K>> >> }, { MaxBuf }, PreexistingOutputs)

SpecErr == InitErr /\ [][NextErr]_vars

\* the input files a monitor may find when it is started
ExistingFiles == SeqsUpTo(Bytes, MaxFairFile) \ { <<>> }

\* A monitor constructed and started against a file that already exists
\* and is not appended to afterwards
InitRescan ==
    /\ file \in ExistingFiles
    /\ fileExists = TRUE
    /\ bufferSize \in BufferSizes
    /\ keywords = << <<K>> >>
    /\ inOpen = FALSE
    /\ streamPos = 0
    /\ lastPosition = 0
    /\ partialLine = <<>>
    /\ running = FALSE
    /\ stats = ZeroStats
    /\ outFile = <<>>
    /\ outBuf = <<>>
    /\ outOpen = FALSE
    /\ outOpenable = TRUE
    /\ pc = "new"
    /\ dataRead = FALSE
    /\ errors = 0
    /\ hist = [handed |-> <<>>, filtered |-> <<>>, written |-> <<>>,
               partialFrom |-> 0, preexisting |-> <<>>]
    /\ afterStop = [called |-> FALSE, reads |-> 0, once |-> FALSE]
    /\ query = NoQuery
    /\ snapshot = NoSnapshot

NextRescan ==
    \/ Construct
    \/ StartEnter
    \/ LoopStep

SpecRescan == InitRescan /\ [][NextRescan]_vars /\ WF_vars(LoopStep)

\* A monitor whose input file never comes into existence: every
\* configuration, with stop() from another thread or a signal handler
InitNoInput == InitOver(KeywordSets, BufferSizes, PreexistingOutputs)

NextNoInput ==
    \/ Construct
    \/ StartEnter
    \/ LoopCheck
    \/ OpenInput
    \/ Sleep
    \/ Stop

SpecNoInput ==
    InitNoInput /\ [][NextNoInput]_vars /\ WF_vars(LoopCheck \/ OpenInput \/ Sleep)

\* A monitor that is destroyed while its loop may still be running
NextDestroy ==
    \/ Construct
    \/ CreateFile
    \/ \E b \in Bytes : Len(file) < MaxFairFile /\ AppendByte(b)
    \/ StartEnter
    \/ LoopStep
    \/ Destroy

SpecDestroy == InitFair /\ [][NextDestroy]_vars /\ WF_vars(LoopStep)

\* Everything at once over a short input file: appends, read errors,
\* stop() from another thread or a signal handler, and destruction
NextAll ==
    \/ Construct
    \/ CreateFile
    \/ \E b \in Bytes : Len(file) < MaxFairFile /\ AppendByte(b)
    \/ StartEnter
    \/ LoopStep
    \/ ReadError
    \/ Stop
    \/ Destroy

SpecAll == InitFair /\ [][NextAll]_vars /\ WF_vars(LoopStep)

\* An unattended run over an input file that its writer may truncate; a
\* read() may fail (at most MaxErrors times), but nothing makes it fail
NextRotate ==
    \/ Construct
    \/ CreateFile
    \/ \E b \in Bytes : Len(file) < MaxRotateFile /\ AppendByte(b)
    \/ Truncate
    \/ StartEnter
    \/ LoopStep
    \/ ReadError

SpecRotate == InitFair /\ [][NextRotate]_vars /\ WF_vars(LoopStep)

\* One start() and one stop(), called from two threads in either order
NextStopOnce ==
    \/ Construct
    \/ CreateFile
    \/ \E b \in Bytes : Len(file) < MaxFairFile /\ AppendByte(b)
    \/ StartEnter
    \/ LoopStep
    \/ StopOnce

SpecStopOnce == InitFair /\ [][NextStopOnce]_vars /\ WF_vars(LoopStep)

\* An unattended run observed from another thread through getStatistics()
NextSnapshot ==
    \/ Construct
    \/ CreateFile
    \/ \E b \in Bytes : Len(file) < MaxRotateFile /\ AppendByte(b)
    \/ StartEnter
    \/ LoopStep
    \/ \E f \in StatFields : GetStatistics(f)

SpecSnapshot == InitFair /\ [][NextSnapshot]_vars

TypeOK ==
    /\ Len(file) <= MaxFile
    /\ pc \in {"new", "failed", "idle", "loop", "open", "read", "sleep", "done"}
    /\ errors \in 0..MaxErrors
    /\ streamPos <= Len(file)

\* ------------------------------------------------- vocabulary of the claims

\* the bytes the current pass has delivered to processBuffer so far
Consumed == SubSeq(file, 1, streamPos)

IsPrefix(a, b) == Len(a) <= Len(b) /\ SubSeq(b, 1, Len(a)) = a

Truncated(line) == SubSeq(line, 1, Min(Len(line), MAX_LINE_LENGTH))

\* position of the first terminator of input, 0 if there is none
FirstNL(input) ==
    IF \E i \in 1..Len(input) : input[i] = NL
    THEN CHOOSE i \in 1..Len(input) :
            input[i] = NL /\ \A j \in 1..(i - 1) : input[j] # NL
    ELSE 0

\* the \n-terminated records of input, in order, terminators excluded
RECURSIVE RecordsOf(_)
RecordsOf(input) ==
    IF FirstNL(input) = 0 THEN <<>>
    ELSE << SubSeq(input, 1, FirstNL(input) - 1) >>
            \o RecordsOf(SubSeq(input, FirstNL(input) + 1, Len(input)))

\* the bytes after the last terminator of input
RECURSIVE TailOf(_)
TailOf(input) ==
    IF FirstNL(input) = 0 THEN input
    ELSE TailOf(SubSeq(input, FirstNL(input) + 1, Len(input)))

\* every \n-delimited record of input, the unterminated last one included
AllRecords(input) ==
    RecordsOf(input) \o (IF TailOf(input) = <<>> THEN <<>> ELSE << TailOf(input) >>)

NonEmpty(line) == line # <<>>

\* text contains some keyword as a contiguous substring (declarative)
HasKeyword(text) ==
    \E j \in 1..Len(keywords) :
        \E p \in 0..(Len(text) - Len(keywords[j])) :
            SubSeq(text, p + 1, p + Len(keywords[j])) = keywords[j]

\* the monitor right after construction, as processBuffer sees it
FreshCur ==
    [ partialLine |-> <<>>,
      stats |-> [linesProcessed |-> 0, linesMatched |-> 0, bytesRead |-> 0,
                 longLinesDiscarded |-> 0],
      outFile |-> <<>>,
      outBuf |-> <<>>,
      hist |-> [handed |-> <<>>, filtered |-> <<>>, written |-> <<>>,
                partialFrom |-> 0, preexisting |-> <<>>],
      outOpen |-> TRUE ]

\* the lines of the output file
OutLines == RecordsOf(outFile)

\* the consumed input is exactly one terminated record
SingleRecord ==
    /\ Len(RecordsOf(Consumed)) = 1
    /\ TailOf(Consumed) = <<>>

\* ------------------------------------------------------------------ claims

\* C1: the bytes written to the output are the same for every buffer size
\* and every partitioning of the input into read chunks: the output after
\* any chunked run equals the output of processing the same bytes as one
\* chunk.
C1_OutputChunkingInvariant ==
    outFile = ProcessBuffer(FreshCur, Consumed, 0).outFile

\* C2: every line written to the output is a prefix, of length at most
\* MAX_LINE_LENGTH, of some \n-delimited record of the input.
C2_WrittenLinesArePrefixes ==
    \A i \in 1..Len(OutLines) :
        /\ Len(OutLines[i]) <= MAX_LINE_LENGTH
        /\ \E r \in 1..Len(AllRecords(Consumed)) :
              IsPrefix(OutLines[i], AllRecords(Consumed)[r])

\* what processLine must append to the output for the lines handed to it
RECURSIVE ExpectedOutput(_)
ExpectedOutput(lines) ==
    IF lines = <<>> THEN <<>>
    ELSE LET line == Head(lines).line
         IN  (IF NonEmpty(line) /\ HasKeyword(Truncated(line))
              THEN Truncated(line) \o <<NL>>
              ELSE <<>>)
             \o ExpectedOutput(Tail(lines))

\* C3: a line handed to processLine is written (its bytes, truncated to
\* MAX_LINE_LENGTH, followed by exactly one \n) if and only if it is
\* non-empty and its truncation contains a keyword; the output is exactly
\* the concatenation of these writes, so nothing else is ever written.
C3_WrittenIffMatch ==
    /\ outFile = ExpectedOutput(hist.handed)
    /\ stats.linesMatched = Len(OutLines)

\* C3 witness: a line longer than the cap was handed over, matched after
\* truncation and was written, and an empty line was handed over too.
C3_Witness ==
    /\ \E i \in 1..Len(hist.handed) :
          /\ Len(hist.handed[i].line) > MAX_LINE_LENGTH
          /\ HasKeyword(Truncated(hist.handed[i].line))
    /\ \E i \in 1..Len(hist.handed) : hist.handed[i].line = <<>>
    /\ Len(OutLines) = 1

\* C4: when every \n-delimited record of the input is at most
\* MAX_LINE_LENGTH long, the lines handed to the filter are exactly the
\* non-empty \n-terminated records of the input, in order.
C4_FilteredAreTerminatedRecords ==
    (\A r \in 1..Len(AllRecords(Consumed)) :
        Len(AllRecords(Consumed)[r]) <= MAX_LINE_LENGTH)
    => hist.filtered = SelectSeq(RecordsOf(Consumed), NonEmpty)

\* C5: a record longer than MAX_LINE_LENGTH hands exactly one line, its
\* first MAX_LINE_LENGTH bytes, to the filter; lines_processed grows by 1
\* and nothing of the remainder is written.
C5_LongRecordOneLine ==
    (SingleRecord /\ Len(RecordsOf(Consumed)[1]) > MAX_LINE_LENGTH)
    => /\ hist.filtered = << Truncated(RecordsOf(Consumed)[1]) >>
       /\ stats.linesProcessed = 1
       /\ Len(OutLines) <= 1

\* C6: long_lines_discarded grows by exactly 1 for a record longer than
\* MAX_LINE_LENGTH, however it is split across chunks.
C6_LongRecordCountedOnce ==
    (SingleRecord /\ Len(RecordsOf(Consumed)[1]) > MAX_LINE_LENGTH)
    => stats.longLinesDiscarded = 1

\* C7: a record of exactly MAX_LINE_LENGTH bytes followed by \n is handed
\* over verbatim and long_lines_discarded stays 0, wherever the chunk
\* boundaries fall.
C7_ExactLengthNotCounted ==
    (SingleRecord /\ Len(RecordsOf(Consumed)[1]) = MAX_LINE_LENGTH)
    => /\ hist.filtered = << RecordsOf(Consumed)[1] >>
       /\ stats.longLinesDiscarded = 0

\* C8: between reads the carry (partialLine_) is never longer than
\* MAX_LINE_LENGTH.
C8_CarryBounded == Len(partialLine) <= MAX_LINE_LENGTH

\* C8 witness: the cap has fired (a synthetic line was cut off an
\* unterminated record) and bytes of the same record are in the carry again.
C8_Witness ==
    /\ stats.longLinesDiscarded > 0
    /\ Len(partialLine) = MAX_LINE_LENGTH - 1
    /\ RecordsOf(Consumed) = <<>>

\* C9: matched lines appear in the output in the order of their position
\* in the input: the i-th output line is the bytes found at its recorded
\* input offset, and these offsets increase along the output.
C9_WrittenInInputOrder ==
    /\ Len(OutLines) = Len(hist.written)
    /\ \A i \in 1..Len(hist.written) :
          OutLines[i] = SubSeq(file, hist.written[i],
                               hist.written[i] + Len(OutLines[i]) - 1)
    /\ \A i, j \in 1..Len(hist.written) :
          i < j => hist.written[i] < hist.written[j]

\* C9 witness: the input read so far ends with a terminator and two
\* different lines of two different records were written.
C9_Witness ==
    /\ Len(hist.written) = 2
    /\ TailOf(Consumed) = <<>>
    /\ OutLines[1] # OutLines[2]
    /\ \E p \in (hist.written[1])..(hist.written[2]) : file[p] = NL

\* C10: once stop() has been invoked on a running loop, the loop reads and
\* processes at most the buffer it is working on, never a further one.
C10_NoFurtherBufferAfterStop == afterStop.reads <= 1

\* what stop() must leave alone: cursor, carry, statistics, both handles,
\* the output, and the position of the loop thread
StopFrame ==
    UNCHANGED << lastPosition, streamPos, partialLine, stats, inOpen, outOpen,
                 outFile, outBuf, pc, dataRead, file, fileExists, bufferSize,
                 keywords >>

\* C11: a stop() step, and any step that clears the running flag, sets the
\* flag to false and changes nothing else; a stop() on a monitor whose flag
\* is already false changes nothing at all, so two calls equal one.
C11_StopOnlyClearsFlag ==
    [][ (Stop \/ (running /\ ~running'))
          => /\ running' = FALSE
             /\ StopFrame ]_vars

\* C11 witness: stop() was called on a running loop that holds a carry,
\* an open input and non-zero counters, and all of them are still there.
C11_Witness ==
    /\ afterStop.called
    /\ ~running
    /\ inOpen
    /\ partialLine # <<>>
    /\ stats.linesMatched > 0
    /\ pc = "loop"

\* the positions of the terminators read so far
TerminatorsRead == { p \in 1..streamPos : file[p] = NL }

\* the line ending right before position p was handed to processLine
HandedBefore(p) ==
    \E i \in 1..Len(hist.handed) :
        hist.handed[i].from + Len(hist.handed[i].line) = p

\* C12: whatever the moment of stop(), when start() has returned every
\* terminator of every buffer read has had its line handed to processLine
\* (and written if it matches, by C3), and the step that leaves the loop
\* emits nothing: carry, output and processed lines stay as they are.
C12_BufferFinishedCarryKept ==
    /\ [](pc = "done" => \A p \in TerminatorsRead : HandedBefore(p))
    /\ [][pc # "done" /\ pc' = "done"
            => UNCHANGED << partialLine, outFile, outBuf, hist, stats >>]_vars

\* C12 witness: stop() hit a running loop, a buffer with a complete matching
\* line was read after it, start() has returned and a carry is left over.
C12_Witness ==
    /\ pc = "done"
    /\ afterStop.called
    /\ afterStop.reads > 0
    /\ stats.linesMatched > 0
    /\ partialLine # <<>>

\* input offset of the first byte after the last terminator read
TailStart == streamPos - Len(TailOf(Consumed)) + 1

\* no written line starts in the unterminated tail of the input read so far
TailNotWritten ==
    \A i \in 1..Len(hist.written) : hist.written[i] < TailStart

\* C13 (as stated): the bytes after the last terminator stay in the carry
\* and never appear in the output, whatever their length.
C13_TailStaysInCarry ==
    /\ partialLine = TailOf(Consumed)
    /\ TailNotWritten

\* C13 (amended): while the bytes after the last terminator are fewer than
\* MAX_LINE_LENGTH they are exactly the carry and none of them is written,
\* whether or not they contain a keyword.
C13_ShortTailStaysInCarry ==
    Len(TailOf(Consumed)) < MAX_LINE_LENGTH
    => /\ partialLine = TailOf(Consumed)
       /\ TailNotWritten

\* C13 witness: the input read so far ends in an unterminated tail that
\* contains a keyword, after an earlier line was written.
C13_Witness ==
    /\ TailOf(Consumed) # <<>>
    /\ Len(TailOf(Consumed)) < MAX_LINE_LENGTH
    /\ HasKeyword(TailOf(Consumed))
    /\ Len(hist.written) > 0
    /\ pc = "sleep"

\* start() has been entered and nobody has cleared the running flag
Tailing == pc \in {"loop", "open", "read", "sleep"} /\ running

\* the loop has read everything the input file holds
CaughtUp == inOpen /\ streamPos = Len(file)

\* C14: while the tailer runs without read errors, whatever has been
\* appended to an existing input file is eventually read (the loop keeps
\* catching up with the file unless it is stopped), every terminated line
\* read has been handed to processLine, and the handed lines that match are
\* in the output.
C14_AppendedLinesProcessed ==
    /\ [](\A p \in TerminatorsRead : HandedBefore(p))
    /\ [](outFile = ExpectedOutput(hist.handed))
    /\ (Tailing /\ fileExists) ~> (CaughtUp \/ ~running)

\* C14 witness: the loop idles at end-of-file (an iteration that read
\* nothing) after it has read and written matching lines, and is running.
C14_Witness ==
    /\ Tailing
    /\ pc = "sleep"
    /\ ~dataRead
    /\ CaughtUp
    /\ stats.linesMatched >= 2

\* C15: matches(text) is true if and only if at least one keyword occurs
\* in text as a contiguous run of equal bytes, at any position.
C15_MatchesIffSubstring ==
    query.made => (query.result <=> HasKeyword(query.text))

\* C15 witness: a query answered true for a keyword that sits strictly
\* inside the text, and the text also holds the other case of a keyword byte.
C15_Witness ==
    /\ query.made
    /\ query.result
    /\ \E j \in 1..Len(keywords) :
          /\ Find(query.text, keywords[j]) >= 1
          /\ Find(query.text, keywords[j]) + Len(keywords[j]) < Len(query.text)
    /\ \E p \in 1..Len(query.text) : query.text[p] = KU

\* C17: matches on the empty text answers false for every keyword list a
\* Matcher can be constructed with, because no keyword is the empty string.
C17_EmptyTextNeverMatches ==
    (query.made /\ query.text = <<>>)
        => /\ ~query.result
           /\ \A j \in 1..Len(keywords) : keywords[j] # <<>>

\* the non-empty lines handed to processLine so far
NonEmptyHanded == { i \in 1..Len(hist.handed) : NonEmpty(hist.handed[i].line) }

\* C16: with an empty keyword list matches answers false for every text
\* and the monitor writes nothing: linesMatched stays 0 and the output stays
\* as it was, while linesProcessed still counts the non-empty lines.
C16_EmptyKeywordsWriteNothing ==
    keywords = <<>>
        => /\ \A text \in Texts : ~Matches(keywords, text)
           /\ stats.linesMatched = 0
           /\ hist.written = <<>>
           /\ outFile = hist.preexisting
           /\ outBuf = <<>>
           /\ stats.linesProcessed = Cardinality(NonEmptyHanded)

\* C16 witness: with no keywords, two non-empty lines were processed over
\* more than one read and an empty line was skipped.
C16_Witness ==
    /\ keywords = <<>>
    /\ stats.linesProcessed >= 2
    /\ Len(hist.handed) > stats.linesProcessed
    /\ bufferSize < streamPos
    /\ pc = "sleep"

\* a LogMonitor right after its constructor returned
FreshlyConstructed ==
    /\ outOpen
    /\ ~inOpen
    /\ lastPosition = 0
    /\ partialLine = <<>>
    /\ stats = ZeroStats
    /\ ~running

\* no LogMonitor exists: nothing is open, nothing was read or written
NothingRan ==
    /\ ~outOpen
    /\ ~inOpen
    /\ ~running
    /\ streamPos = 0
    /\ stats = ZeroStats
    /\ hist.handed = <<>>
    /\ outFile = hist.preexisting

\* C18: construction fails when the output cannot be opened, and then no
\* monitor exists and no loop ever runs; after a successful construction the
\* output is open, the input is closed, the cursor is 0, the carry is empty
\* and the counters are 0; the input is opened only by a loop iteration of
\* start(), so it is closed when start() is entered.
C18_ConstructionContract ==
    /\ [](~outOpenable => pc \in {"new", "failed"})
    /\ [](pc = "failed" => ~outOpenable /\ NothingRan)
    /\ [](pc = "idle" => outOpenable /\ FreshlyConstructed)
    /\ [](pc \notin {"new", "failed"} => outOpen)
    /\ [][pc = "failed" => pc' = "failed"]_vars
    /\ [][pc = "idle" /\ pc' # "idle" => pc' = "loop" /\ ~inOpen']_vars
    /\ [][~inOpen /\ inOpen' => pc = "open" /\ pc' = "read" /\ fileExists]_vars

\* C18 witness: construction has failed although an input file with
\* lines to read exists.
C18_Witness ==
    /\ pc = "failed"
    /\ ~outOpenable
    /\ fileExists
    /\ Len(file) >= 2

\* C19: the output is append-only: it always starts with what it held
\* before construction, and every step leaves the output it found as a
\* prefix of the output it leaves, read-error recovery included.
C19_OutputAppendOnly ==
    /\ [](IsPrefix(hist.preexisting, outFile))
    /\ [][IsPrefix(outFile, outFile')]_vars

\* C19 witness: the output held a line before construction, a read error
\* was recovered from, and matching lines were written before and after.
C19_Witness ==
    /\ hist.preexisting # <<>>
    /\ errors >= 1
    /\ inOpen
    /\ Len(OutLines) >= 3
    /\ stats.linesMatched >= 2

\* C20: every matched line is flushed right after it is written: whenever
\* the loop sleeps, reads again or tests the running flag (at every state
\* between two steps), nothing is left in the stream buffer and the
\* output file holds one line per match.
C20_FlushedAfterEveryMatch ==
    /\ outBuf = <<>>
    /\ Len(outFile) = Len(ExpectedOutput(hist.handed))
    /\ Len(OutLines) = stats.linesMatched

\* C20 witness: the loop sleeps after two matches made in separate reads.
C20_Witness ==
    /\ pc = "sleep"
    /\ stats.linesMatched >= 2
    /\ bufferSize < streamPos
    /\ running

\* C21: in every reachable state of the loop, linesMatched is at most
\* linesProcessed.
C21_MatchedAtMostProcessed == stats.linesMatched <= stats.linesProcessed

\* C21 witness: some lines matched and some did not.
C21_Witness ==
    /\ stats.linesMatched >= 1
    /\ stats.linesMatched < stats.linesProcessed
    /\ pc = "sleep"

\* C22: no step ever lowers one of the four statistics counters: not a
\* read, an end-of-file, a read error with its re-open, or a stop() call.
C22_CountersNeverDecrease ==
    [][ /\ stats'.linesProcessed >= stats.linesProcessed
        /\ stats'.linesMatched >= stats.linesMatched
        /\ stats'.bytesRead >= stats.bytesRead
        /\ stats'.longLinesDiscarded >= stats.longLinesDiscarded ]_vars

\* C22 witness: after a read error the file was read again from the start
\* (more bytes were read than the file holds), an over-long line was
\* counted, and stop() has been called on the running loop.
C22_Witness ==
    /\ errors >= 1
    /\ stats.bytesRead > Len(file)
    /\ stats.longLinesDiscarded >= 1
    /\ stats.linesMatched >= 1
    /\ afterStop.called

\* C23: a freshly constructed monitor started against an existing file
\* opens it at offset zero and processes every complete line the file
\* already holds: the loop reaches end-of-file having read the whole file
\* from its first byte and handed over every terminated line.
C23_ExistingFileRescanned ==
    /\ [][~inOpen /\ inOpen' => streamPos' = 0]_vars
    /\ [](hist.handed # <<>> => hist.handed[1].from = 1)
    /\ []((pc = "sleep" /\ inOpen)
            => /\ streamPos = Len(file)
               /\ stats.bytesRead = Len(file)
               /\ \A p \in 1..Len(file) : file[p] = NL => HandedBefore(p))
    /\ Tailing ~> (pc = "sleep" /\ inOpen)

\* C23 witness: the loop idles at the end of a file that existed before
\* start(), after several reads and two matches.
C23_Witness ==
    /\ pc = "sleep"
    /\ inOpen
    /\ bufferSize < Len(file)
    /\ stats.linesMatched >= 2
    /\ hist.handed[1].from = 1

\* the destructor has returned (only it closes the output stream)
Destroyed == pc \notin {"new", "failed"} /\ ~outOpen

\* C24: destruction from another thread while start() is running is safe:
\* once the destructor has returned both handles are closed, and they stay
\* closed because the loop thread opens, reads and writes nothing more.
C24_ClosedAfterDestruction == Destroyed => ~inOpen /\ ~outOpen

\* C25: the position cursor is a non-negative offset that has advanced by
\* exactly n after every read of n > 0 bytes, a short read at end-of-file
\* included, so while the input is open it equals the number of bytes read
\* from it since it was opened at the cursor; a read error resets it to 0.
C25_CursorTracksReads ==
    /\ lastPosition >= 0
    /\ inOpen => lastPosition = streamPos
    /\ ~inOpen => lastPosition = 0

\* a step in which read() failed with an error other than end-of-file
ReadFailed == pc = "read" /\ errors' = errors + 1

\* some line of the input was written to the output more than once
WrittenTwice ==
    \E i, j \in 1..Len(hist.written) : i < j /\ hist.written[i] = hist.written[j]

\* C26: a read error closes the input, resets the cursor to zero, clears
\* the carry and leaves output and statistics alone; the loop does not
\* read again before it has taken the open path, which starts at offset
\* zero, so lines already processed are processed again.
C26_ReadErrorRecovery ==
    /\ [][ReadFailed => /\ ~inOpen'
                        /\ lastPosition' = 0
                        /\ partialLine' = <<>>
                        /\ pc' \in {"loop", "sleep"}
                        /\ UNCHANGED << stats, outFile, outBuf, outOpen, running >>]_vars
    /\ [](pc = "read" => inOpen)
    /\ []((errors > 0 /\ ~inOpen) => lastPosition = 0 /\ partialLine = <<>>)
    /\ [][(errors > 0 /\ ~inOpen /\ inOpen') => pc = "open" /\ streamPos' = 0]_vars

\* C26 witness: after a read error the file was re-opened and read again
\* from the start, and a line written before the error was written again.
C26_Witness ==
    /\ errors >= 1
    /\ inOpen
    /\ WrittenTwice
    /\ stats.bytesRead > Len(file)

\* a step in which read() returned no bytes and end-of-file was observed
EofNoData ==
    /\ pc = "read"
    /\ pc' # "read"
    /\ streamPos' = streamPos
    /\ errors' = errors

\* what such a step leaves alone: the input handle, cursor, carry,
\* statistics and output
EofFrame ==
    UNCHANGED << inOpen, streamPos, lastPosition, partialLine, stats, outFile,
                 outBuf, outOpen, running >>

\* the input handle is closed only by a read error or by the destructor
ClosedOnlyByErrorOrDestruction ==
    [][(inOpen /\ ~inOpen') => (ReadFailed \/ (outOpen /\ ~outOpen'))]_vars

\* C27 as stated: a read that observes end-of-file with zero bytes leaves
\* handle, cursor, carry, statistics and output alone and the loop then
\* sleeps before it re-checks the running flag.
C27_EofIdleSleeps ==
    /\ [][EofNoData => EofFrame /\ pc' = "sleep"]_vars
    /\ ClosedOnlyByErrorOrDestruction

\* C27 amended: such a read leaves handle, cursor, carry, statistics and
\* output alone; the loop then sleeps if no read of this iteration returned
\* data, and otherwise goes straight back to the running-flag test; after
\* a sleep comes the running-flag test.
C27_EofIdleSleepsUnlessDataRead ==
    /\ [][EofNoData => /\ EofFrame
                       /\ pc' = IF dataRead THEN "loop" ELSE "sleep"]_vars
    /\ [][(pc = "sleep" /\ pc' # "sleep") => pc' = "loop"]_vars
    /\ ClosedOnlyByErrorOrDestruction

\* C27 witness: a read that filled the buffer ended exactly at end-of-file,
\* the next read returned nothing, the input is still open and the loop is
\* back at the running-flag test without having slept.
C27_Witness ==
    /\ pc = "loop"
    /\ dataRead
    /\ inOpen
    /\ streamPos = Len(file)
    /\ lastPosition = streamPos
    /\ streamPos > 0
    /\ running

\* a step in which the open path finds that the input cannot be opened
OpenFailed == pc = "open" /\ ~inOpen /\ ~fileExists /\ pc' # "open"

\* the loop thread is inside start()
InLoop == pc \in {"loop", "open", "read", "sleep"}

\* C28: when the input cannot be opened nothing is surfaced and nothing
\* but time changes: the loop sleeps, then re-tests the running flag and,
\* if still running, tries the open again; once stop() has been called,
\* start() returns even though the input never became openable.
C28_OpenFailureRetried ==
    /\ [][OpenFailed
            => /\ pc' = "sleep"
               /\ UNCHANGED << inOpen, streamPos, lastPosition, partialLine,
                               stats, outFile, outBuf, outOpen, running,
                               errors, hist >>]_vars
    /\ [][(pc = "sleep" /\ pc' # "sleep") => pc' = "loop"]_vars
    /\ [][(pc = "loop" /\ pc' # "loop")
            => pc' = IF running THEN "open" ELSE "done"]_vars
    /\ (InLoop /\ ~running /\ ~fileExists) ~> (pc = "done")

\* C28 witness: start() has returned after stop(), the input never existed
\* and nothing was read or written.
C28_Witness ==
    /\ pc = "done"
    /\ ~fileExists
    /\ afterStop.called
    /\ ~inOpen
    /\ stats = ZeroStats

\* C29: every iteration of the main loop makes progress: the loop comes
\* back to the running-flag test only from a sleep or from an inner loop in
\* which some read returned at least one byte (dataRead is cleared at the
\* start of each inner loop and set only by such a read), and otherwise it
\* exits.
C29_IterationMakesProgress ==
    /\ [][(pc # "loop" /\ pc' = "loop")
            => \/ pc = "idle"
               \/ pc = "sleep"
               \/ pc = "read" /\ dataRead']_vars
    /\ [][(pc = "open" /\ pc' = "read") => ~dataRead']_vars
    /\ [][(~dataRead /\ dataRead')
            => /\ pc = "read"
               /\ streamPos' > streamPos
               /\ stats'.bytesRead > stats.bytesRead]_vars
    /\ [][(pc = "loop" /\ pc' # "loop") => pc' \in {"open", "done"}]_vars

\* C29 witness: an iteration that read data and then hit a read error is
\* back at the running-flag test without a sleep, the input closed.
C29_Witness ==
    /\ pc = "loop"
    /\ dataRead
    /\ errors >= 1
    /\ ~inOpen
    /\ running
    /\ stats.bytesRead > 0

\* the zero-length lines found so far: a terminator that comes first in the
\* file or right after another terminator, or first in a read when the
\* carry is empty
EmptyHanded == { i \in 1..Len(hist.handed) : hist.handed[i].line = <<>> }

\* C30: zero-length lines are dropped: they are not counted in
\* linesProcessed, not forwarded to the filter and not written, so the
\* filter sees only non-empty lines, linesProcessed counts exactly the
\* non-empty lines found, and the output has no empty line.
C30_EmptyLinesDropped ==
    /\ \A i \in 1..Len(hist.filtered) : NonEmpty(hist.filtered[i])
    /\ Len(hist.filtered) = Cardinality(NonEmptyHanded)
    /\ stats.linesProcessed = Len(hist.handed) - Cardinality(EmptyHanded)
    /\ \A i \in 1..Len(OutLines) : NonEmpty(OutLines[i])
    /\ stats.linesMatched <= Cardinality(NonEmptyHanded)

\* C30 witness: with one-byte reads, two consecutive terminators were read
\* (the second is the first byte of its read and the carry is empty then),
\* and a matching line was processed and written as well.
C30_Witness ==
    /\ \E p \in 2..streamPos : file[p] = NL /\ file[p - 1] = NL
    /\ Cardinality(EmptyHanded) >= 1
    /\ stats.linesMatched >= 1
    /\ bufferSize = 1
    /\ pc = "sleep"

\* the open input stream stands beyond the end of the file, which only a
\* truncation of the file brings about
BeyondEnd == inOpen /\ streamPos > Len(file)

\* C31: when the input file has been truncated under the running tailer,
\* the tailer eventually closes the input and resets the cursor to zero (from
\* where it would process the lines written to the path afterwards).
C31_RecoversFromTruncation ==
    (Tailing /\ BeyondEnd) ~> (~inOpen /\ lastPosition = 0)

\* C32: once start() has been entered and the one stop() call has been
\* made, in whichever order, start() eventually returns.
C32_StartReturnsAfterStop ==
    (InLoop /\ afterStop.once) ~> (pc = "done")

\* what a getStatistics() call may not touch: everything but its own result
TailerState == << file, fileExists, bufferSize, keywords, inOpen, streamPos,
                 lastPosition, partialLine, running, stats, outFile, outBuf,
                 outOpen, outOpenable, pc, dataRead, errors >>

\* C33: every Statistics object returned by getStatistics(), also by a call
\* made from another thread while the loop processes lines, has
\* linesMatched <= linesProcessed, and a step of getStatistics() changes
\* nothing of the tailer.
C33_SnapshotConsistent ==
    /\ [](snapshot.phase = "returned"
             => snapshot.value.linesMatched <= snapshot.value.linesProcessed)
    /\ [][snapshot' # snapshot => UNCHANGED TailerState]_vars

\* the bytes the next read() of the inner loop delivers (line 232)
NextChunk ==
    LET avail == IF inOpen /\ streamPos < Len(file)
                 THEN Len(file) - streamPos ELSE 0
    IN  SubSeq(file, streamPos + 1, streamPos + Min(bufferSize, avail))

\* processBuffer on that chunk, arrived at line 156: the length of the carry
\* and the number of bytes after the chunk's last terminator
AtTail ==
    LET scan == ScanBuffer(Cur, NextChunk, 1, 1, streamPos)
    IN  [ partialLength |-> Len(scan.s.partialLine),
          remainingLen  |-> Len(NextChunk) - scan.start + 1 ]

\* the next read() takes processBuffer into the branch of lines 163-167
CapFires ==
    /\ pc = "read"
    /\ AtTail.remainingLen > 0
    /\ AtTail.partialLength + AtTail.remainingLen >= MAX_LINE_LENGTH

\* C34: whenever processBuffer takes the branch that caps the unterminated
\* tail, the number of bytes it appends to the carry, computed in size_t as
\* MAX_LINE_LENGTH - partialLine_.length(), is at least 1 and at most the
\* number of bytes left in the chunk: the subtraction does not wrap and
\* nothing beyond bytesRead is read.
C34_AppendCountInRange ==
    CapFires => AppendCount(AtTail.partialLength) \in 1..AtTail.remainingLen

\* C34 witness: the cap has fired before, a byte is in the carry again, and
\* the next chunk makes it fire with fewer bytes appended than the chunk has
\* left.
C34_Witness ==
    /\ CapFires
    /\ stats.longLinesDiscarded > 0
    /\ AtTail.partialLength > 0
    /\ AppendCount(AtTail.partialLength) < AtTail.remainingLen

====
